---- MODULE Spec2Model ----
(***************************************************************************)
(* A model of src/main.py (npa-monitor-bot): one run of run_once after     *)
(* another over a persisted state file.  Strings are TLA+ strings; the     *)
(* Cyrillic literals of the source are transliterated to ASCII.            *)
(***************************************************************************)
EXTENDS Integers, Sequences, FiniteSets, TLC

VARIABLES
    sources,     \* sources.json: the configured sources, as indices of SourceList
    runsLeft,    \* how many times the scheduler still starts the script
    feed,        \* what each source's URL serves (parsed entries); the same in every run
    verdicts,    \* the classifier's answer per (regulator, title, url), once it was asked
    stateFile,   \* state.json: the persisted state["seen"], a set of <<regulator, url>>
    run,         \* number of the current (or last) run of run_once
    pc,          \* position of run_once: idle, gather, notify, done, crashed
    crashCause,  \* what raised out of run_once when pc = "crashed"
    loaded,      \* state["seen"] as load_state returned it at the start of this run
    state,       \* state["seen"] in memory
    hpc,         \* per source handler (one_source): pending, inside, done
    fetched,     \* per source: none, ok, fail (how its collect_items ended this run)
    all_new,     \* run_once's all_new
    errors,      \* run_once's errors (one entry per failed source)
    queue,       \* by_reg: regulators still to be filtered and notified, with their items
    marked,      \* items passed to mark_seen in this run
    cutoff,      \* whether all_new[:MAX_TOTAL_ITEMS] or [:MAX_ITEMS_PER_REGULATOR] dropped an item this run
    saved,       \* whether save_json(STATE_FILE, state) ran in this run
    tg_log,      \* every tg_send call so far: run, kind, regulator, items, errors, resp
    prev,        \* the previous run as it ended: completed, fetched, cutoff
    f_i,         \* robust_fetch_text: index of the next delay in delays
    f_last_err,  \* robust_fetch_text: last_err
    f_tried,     \* robust_fetch_text: the responses of the attempts made so far
    f_slept,     \* robust_fetch_text: seconds slept so far
    f_result     \* robust_fetch_text: running, body, or RuntimeError

vars == <<sources, runsLeft, feed, verdicts, stateFile, run, pc, crashCause, loaded, state, hpc, fetched,
          all_new, errors, queue, marked, cutoff, saved, tg_log, prev,
          f_i, f_last_err, f_tried, f_slept, f_result>>

----------------------------------------------------------------------------
(* Bounds of the model *)

\* runs of run_once in one behaviour of Spec
RunsOnce == 1

\* runs of run_once in one behaviour of SpecRepeat
RunsRepeat == 2

\* src/main.py:20 sets MAX_ITEMS_PER_REGULATOR = 15; scaled down so that feeds of
\* three entries reach the limit
MAX_ITEMS_PER_REGULATOR == 2

\* src/main.py:21 sets MAX_TOTAL_ITEMS = 60; scaled down likewise
MAX_TOTAL_ITEMS == 3

\* src/main.py:23 sets CONCURRENCY = 4; scaled down so that three sources contend
CONCURRENCY == 2

----------------------------------------------------------------------------
(* Strings *)

Min(a, b) == IF a < b THEN a ELSE b

Take(s, n) == SubSeq(s, 1, Min(n, Len(s)))

StartsWith(s, p) == Len(p) <= Len(s) /\ SubSeq(s, 1, Len(p)) = p

Contains(s, w) ==
    \E i \in 1..(Len(s) - Len(w) + 1) : SubSeq(s, i, i + Len(w) - 1) = w

UpperCase == <<"A", "B", "C", "D", "E", "F", "G", "H", "I", "J", "K", "L", "M",
               "N", "O", "P", "Q", "R", "S", "T", "U", "V", "W", "X", "Y", "Z">>

LowerCase == <<"a", "b", "c", "d", "e", "f", "g", "h", "i", "j", "k", "l", "m",
               "n", "o", "p", "q", "r", "s", "t", "u", "v", "w", "x", "y", "z">>

LowerChar(c) ==
    IF \E k \in 1..26 : UpperCase[k] = c
    THEN LowerCase[CHOOSE k \in 1..26 : UpperCase[k] = c]
    ELSE c

RECURSIVE Lower(_)
Lower(s) ==
    IF Len(s) = 0 THEN ""
    ELSE LowerChar(SubSeq(s, 1, 1)) \o Lower(SubSeq(s, 2, Len(s)))

----------------------------------------------------------------------------
(* Sources (sources.json) and what they serve *)

SourceList ==
    << [regulator |-> "CBR",   type |-> "cbr_rss",        url |-> "http://cbr/rss"],
       [regulator |-> "CBR",   type |-> "cbr_html",       url |-> "http://cbr/na"],
       [regulator |-> "FSTEC", type |-> "regulation_rss", url |-> "http://reg/rss"] >>

Sources == 1..Len(SourceList)

\* An <item> of an RSS feed or an <a> of a page: its title (text) and link (href)
Entry(t, l) == [title |-> t, link |-> l]

U1 == "https://cbr.ru/project_na/1"
U2 == "https://cbr.ru/project_na/2"
U3 == "https://cbr.ru/project_na/3"

FeedChoices(s) ==
    CASE s = 1 -> { << Entry("doc1", U1), Entry("doc2", U1), Entry("doc3", U3) >>,
                    << Entry("doc1", U1), Entry("Press", U2), Entry("doc0", "") >> }
      [] s = 2 -> { << Entry("doc4", "/project_na/2"), Entry("doc4", "/project_na/2"),
                       Entry("about", "/about"), Entry("doc1", "/project_na/1") >>,
                    << Entry("doc4", "/project_na/2") >> }
      [] s = 3 -> { << Entry("doc5", U1), Entry("doc6", "http://r/6") >>,
                    << Entry("doc6", "http://r/6") >> }

----------------------------------------------------------------------------
(* Extraction *)

Item(reg, t, u, src) == [regulator |-> reg, title |-> t, url |-> u, source_url |-> src]

bad_words ==
    << "kontak", "karta sajta", "sitemap", "vakans", "press-tsentr", "press",
       "novosti", "news", "obratitsya", "o sajte", "en", "eng", "tel", "rutube",
       "vk.com", "ok.ru", "t.me/" >>

is_probably_navigation(title, url) ==
    LET t == Lower(title)
    IN  \/ \E k \in 1..Len(bad_words) : Contains(t, bad_words[k])
        \/ StartsWith(url, "tel:")

\* parse_rss_items keeps the entries that have a link
parse_rss_items(xml) == SelectSeq(xml, LAMBDA e : e.link # "")

cbr_patterns == << "/content/document/file/", "/project_na", "/crosscut/lawacts/file/" >>

\* the (text, href) pairs the cbr_html branch keeps in links
CbrLinks(html) ==
    LET abs(h) == IF StartsWith(h, "/") THEN "https://cbr.ru" \o h ELSE h
        keep(e) == /\ e.link # ""
                   /\ e.title # ""
                   /\ \E k \in 1..Len(cbr_patterns) : Contains(Lower(abs(e.link)), cbr_patterns[k])
        RECURSIVE go(_)
        go(es) == IF es = << >> THEN << >>
                  ELSE IF keep(Head(es))
                       THEN << Entry(Head(es).title, abs(Head(es).link)) >> \o go(Tail(es))
                       ELSE go(Tail(es))
    IN  go(html)

\* the loop over links of the cbr_html branch: unseen urls that are not
\* navigation, until MAX_ITEMS_PER_REGULATOR items are collected
RECURSIVE CbrDedup(_, _, _, _, _)
CbrDedup(links, seen, items, reg, url) ==
    IF links = << >> THEN items
    ELSE LET e == Head(links)
         IN  IF e.link \in seen \/ is_probably_navigation(e.title, e.link)
             THEN CbrDedup(Tail(links), seen, items, reg, url)
             ELSE LET items2 == Append(items, Item(reg, e.title, e.link, url))
                  IN  IF Len(items2) >= MAX_ITEMS_PER_REGULATOR
                      THEN items2
                      ELSE CbrDedup(Tail(links), seen \cup {e.link}, items2, reg, url)

\* collect_items once the page was fetched (body: what the source serves)
collect_items(src, body) ==
    LET reg == src.regulator
        url == src.url
        mk(es) == [k \in 1..Len(es) |-> Item(reg, es[k].title, es[k].link, url)]
    IN  CASE src.type \in {"cbr_rss", "regulation_rss"} ->
                 mk(Take(parse_rss_items(body), MAX_ITEMS_PER_REGULATOR))
          [] src.type = "cbr_html" ->
                 CbrDedup(CbrLinks(body), {}, << >>, reg, url)
          [] OTHER -> << >>

----------------------------------------------------------------------------
(* Fetcher *)

\* what a GET can answer: an HTTP status, or 0 for a network-level failure
\* (timeout, connection error)
HttpResponses == {0, 200, 404, 429, 500}

delays == << 0, 2, 5, 10 >>

\* fetch_text: raise_for_status raises on every status from 400 on
fetch_text(resp) ==
    IF resp = 0 THEN [raised |-> TRUE, err |-> "ClientConnectionError"]
    ELSE IF resp >= 400 THEN [raised |-> TRUE, err |-> "ClientResponseError"]
    ELSE [raised |-> FALSE, err |-> "None"]

FetchStart == [i |-> 1, last_err |-> "None", slept |-> 0, result |-> "running"]

\* one iteration of robust_fetch_text's loop over delays, the GET answering resp
FetchIter(st, resp) ==
    LET r == fetch_text(resp)
        slept2 == st.slept + delays[st.i]
    IN  IF ~r.raised
        THEN [st EXCEPT !.slept = slept2, !.result = "body"]
        ELSE [i        |-> st.i + 1,
              last_err |-> r.err,
              slept    |-> slept2,
              result   |-> IF st.i + 1 > Len(delays) THEN "RuntimeError" ELSE "running"]

\* robust_fetch_text, the attempts answering resps[1], resps[2], ...
RECURSIVE FetchLoop(_, _)
FetchLoop(st, resps) ==
    IF st.result # "running" THEN st
    ELSE FetchLoop(FetchIter(st, resps[st.i]), resps)

robust_fetch_text(resps) == FetchLoop(FetchStart, resps).result

\* how robust_fetch_text can end
FetchOutcomes == {robust_fetch_text(r) : r \in [1..Len(delays) -> HttpResponses]}

----------------------------------------------------------------------------
(* Dedup state *)

item_key(it) == it.url

\* mark_seen that records nothing
mark_seen_lost(st, it) == st

mark_seen(st, it) == st \cup {<< it.regulator, item_key(it) >>}

is_seen(st, it) == << it.regulator, item_key(it) >> \in st

\* load_state: state.json's "seen" (the file absent: empty)
load_state(file) == file

RECURSIVE MarkAll(_, _)
MarkAll(st, items) ==
    IF items = << >> THEN st ELSE MarkAll(mark_seen(st, Head(items)), Tail(items))

----------------------------------------------------------------------------
(* Notifier *)

\* tg_send's answer from the chat API
TgResponses == {200, 400, 429}

\* tg_send: one POST; raise_for_status raises on every status from 400 on
tg_send(resp) == [raised |-> resp >= 400]

\* now_msk_str(): "%d.%m.%Y %H:%M", 16 characters whatever the time
now_msk_str == "05.11.2026 20:00"

RECURSIVE Join(_)
Join(lines) ==
    IF lines = << >> THEN ""
    ELSE IF Len(lines) = 1 THEN lines[1]
    ELSE lines[1] \o "\n" \o Join(Tail(lines))

ItemLine(i, it) == ToString(i) \o ") " \o it.title \o " - " \o it.url

build_message(regulator, items) ==
    Join(<< "Monitoring NPA (IB)",
            "Regulyator: " \o regulator,
            "Data: " \o now_msk_str,
            "Novye publikatsii: " \o ToString(Len(items)),
            "" >>
         \o [i \in 1..Len(items) |-> ItemLine(i, items[i])])

ErrorLine(s) ==
    SourceList[s].regulator \o ": " \o SourceList[s].url
        \o " -> RuntimeError: Failed to fetch " \o SourceList[s].url

error_text(errs) ==
    "Monitoring NPA (IB)\nOshibki istochnikov:\n"
        \o Join([k \in 1..Len(errs) |-> ErrorLine(errs[k])])

----------------------------------------------------------------------------
(* Relevance filter *)

\* What one giga.chat call can come to: the call or json.loads raises
\* ("exception"), the JSON is no object ("non_object"), or it is an object
\* whose "relevant" is true or not and whose "score" int() accepts or not.
Answer(k, rel, sc_ok, sc) == [kind |-> k, relevant |-> rel, score_ok |-> sc_ok, score |-> sc]

GigaAnswers ==
    { Answer("exception", FALSE, TRUE, 0),
      Answer("non_object", FALSE, TRUE, 0),
      Answer("object", TRUE, TRUE, 90),
      Answer("object", TRUE, TRUE, 10),
      Answer("object", FALSE, TRUE, 90),
      Answer("object", TRUE, FALSE, 0) }

\* what the classifier is shown of an item
GigaKey(it) == << it.regulator, it.title, it.url >>

\* out of gigachat_filter: the items whose call returned a JSON object
GigaOut(items, ans) ==
    SelectSeq(items, LAMBDA it : ans[GigaKey(it)].kind = "object")

\* rel that takes an item whose call raised for relevant (fail-open)
GigaRel_failopen(items, ans) ==
    SelectSeq(items, LAMBDA it : \/ ans[GigaKey(it)].kind = "exception"
                                 \/ (ans[GigaKey(it)].kind = "object" /\ ans[GigaKey(it)].relevant))

\* rel of gigachat_filter: those of out with "relevant" true
GigaRel(items, ans) ==
    SelectSeq(GigaOut(items, ans), LAMBDA it : ans[GigaKey(it)].relevant)

\* list.sort(key=score, reverse=True): descending, equal scores keep their order
RECURSIVE SortByScore(_, _)
SortByScore(items, ans) ==
    IF items = << >> THEN << >>
    ELSE LET rest == SortByScore(SubSeq(items, 1, Len(items) - 1), ans)
             x    == items[Len(items)]
             sx   == ans[GigaKey(x)].score
             n    == Cardinality({k \in 1..Len(rest) : ans[GigaKey(rest[k])].score >= sx})
         IN  SubSeq(rest, 1, n) \o << x >> \o SubSeq(rest, n + 1, Len(rest))

\* gigachat_filter(items, credentials), the classifier answering ans; int()
\* of a score that is no number raises out of the sort
gigachat_filter(items, ans) ==
    LET rel == GigaRel(items, ans)
    IN  IF \E k \in 1..Len(rel) : ~ans[GigaKey(rel[k])].score_ok
        THEN [raised |-> TRUE, rel |-> << >>]
        ELSE [raised |-> FALSE, rel |-> SortByScore(rel, ans)]

\* final_items without the cut to MAX_ITEMS_PER_REGULATOR
final_items_uncapped(filtered) == filtered

\* final_items of run_once
final_items(filtered) == Take(filtered, MAX_ITEMS_PER_REGULATOR)

----------------------------------------------------------------------------
(* Run controller *)

SeqToSet(q) == {q[k] : k \in 1..Len(q)}

\* a semaphore that lets every handler in
sem_unbounded(h) == TRUE

\* the semaphore of run_once lets a handler into collect_items
sem_free(h) == Cardinality({s \in DOMAIN h : h[s] = "inside"}) < CONCURRENCY

\* one_source after collect_items returned items: drop navigation, keep the unseen
new_items(st, items) ==
    SelectSeq(SelectSeq(items, LAMBDA it : ~is_probably_navigation(it.title, it.url)),
              LAMBDA it : ~is_seen(st, it))

\* one_source without its try/except: a failed fetch raises out of the handler
one_source_uncaught(s, outcome, st, all, errs) ==
    IF outcome = "body"
    THEN [all_new |-> all \o new_items(st, collect_items(SourceList[s], feed[s])),
          errors  |-> errs,
          raised  |-> FALSE]
    ELSE [all_new |-> all, errors |-> errs, raised |-> TRUE]

\* one_source(src) from the return (or raise) of collect_items to its end
one_source(s, outcome, st, all, errs) ==
    IF outcome = "body"
    THEN [all_new |-> all \o new_items(st, collect_items(SourceList[s], feed[s])),
          errors  |-> errs,
          raised  |-> FALSE]
    ELSE [all_new |-> all, errors |-> Append(errs, s), raised |-> FALSE]

\* by_reg: the regulators in the order of their first item, each with its items
RECURSIVE by_reg(_)
by_reg(all) ==
    IF all = << >> THEN << >>
    ELSE LET reg == Head(all).regulator
         IN  << [regulator |-> reg,
                 items |-> SelectSeq(all, LAMBDA it : it.regulator = reg)] >>
             \o by_reg(SelectSeq(all, LAMBDA it : it.regulator # reg))

----------------------------------------------------------------------------
(* State machine *)

NoFetch == [s \in Sources |-> "none"]

\* state.json as an earlier run can have left it
InitialFiles == { {}, {<< "CBR", U1 >>} }

Setup(srcs, runs, file) ==
    /\ sources = srcs
    /\ runsLeft = runs
    /\ feed \in {f \in [Sources -> UNION {FeedChoices(s) : s \in Sources} \cup {<< >>}] :
                    \A s \in Sources : IF s \in srcs THEN f[s] \in FeedChoices(s) ELSE f[s] = << >>}
    /\ verdicts = << >>
    /\ stateFile = file
    /\ run = 0
    /\ pc = "idle"
    /\ crashCause = "none"
    /\ loaded = file
    /\ state = file
    /\ hpc = [s \in srcs |-> "done"]
    /\ fetched = NoFetch
    /\ all_new = << >>
    /\ errors = << >>
    /\ queue = << >>
    /\ marked = {}
    /\ cutoff = FALSE
    /\ saved = FALSE
    /\ tg_log = << >>
    /\ prev = [completed |-> FALSE, fetched |-> NoFetch, cutoff |-> FALSE]
    /\ f_i = FetchStart.i
    /\ f_last_err = FetchStart.last_err
    /\ f_slept = FetchStart.slept
    /\ f_result = FetchStart.result
    /\ f_tried = << >>

Init == \E file \in InitialFiles : Setup(Sources, RunsOnce, file)

\* two runs over the first two sources, state.json absent at first
InitRepeat == Setup({1, 2}, RunsRepeat, {})

fetchVars == << f_i, f_last_err, f_tried, f_slept, f_result >>

envVars == << sources, feed >>

EnvNames == {"BOT_TOKEN", "CHAT_ID", "GIGACHAT_CREDENTIALS"}

\* run_once up to asyncio.gather: the environment is read (env[n]: n is set),
\* the state is loaded, the handlers are created
StartRun ==
    /\ pc \in {"idle", "done", "crashed"}
    /\ runsLeft > 0
    /\ runsLeft' = runsLeft - 1
    /\ run' = run + 1
    /\ prev' = [completed |-> pc = "done", fetched |-> fetched, cutoff |-> cutoff]
    /\ all_new' = << >>
    /\ errors' = << >>
    /\ queue' = << >>
    /\ marked' = {}
    /\ cutoff' = FALSE
    /\ saved' = FALSE
    /\ fetched' = NoFetch
    /\ loaded' = load_state(stateFile)
    /\ state' = load_state(stateFile)
    /\ \E env \in [EnvNames -> BOOLEAN] :
          IF \A n \in EnvNames : env[n]
          THEN /\ pc' = "gather"
               /\ crashCause' = "none"
               /\ hpc' = [s \in sources |-> "pending"]
          ELSE /\ pc' = "crashed"
               /\ crashCause' = "config"
               /\ hpc' = [s \in sources |-> "done"]
    /\ UNCHANGED << envVars, verdicts, stateFile, tg_log, fetchVars >>

\* one_source(src) enters "async with sem" and awaits collect_items
Acquire(s) ==
    /\ pc = "gather"
    /\ hpc[s] = "pending"
    /\ sem_free(hpc)
    /\ hpc' = [hpc EXCEPT ![s] = "inside"]
    /\ UNCHANGED << envVars, runsLeft, verdicts, stateFile, run, pc, crashCause, loaded, state,
                    fetched, all_new, errors, queue, marked, cutoff, saved, tg_log, prev,
                    fetchVars >>

\* collect_items returns or raises; one_source runs to its end without awaiting
Collected(s) ==
    /\ pc = "gather"
    /\ hpc[s] = "inside"
    /\ \E outcome \in FetchOutcomes :
          LET r == one_source(s, outcome, state, all_new, errors)
          IN  /\ all_new' = r.all_new
              /\ errors' = r.errors
              /\ fetched' = [fetched EXCEPT ![s] = IF outcome = "body" THEN "ok" ELSE "fail"]
              /\ pc' = IF r.raised THEN "crashed" ELSE pc
              /\ crashCause' = IF r.raised THEN "one_source" ELSE crashCause
    /\ hpc' = [hpc EXCEPT ![s] = "done"]
    /\ UNCHANGED << envVars, runsLeft, verdicts, stateFile, run, loaded, state,
                    queue, marked, cutoff, saved, tg_log, prev, fetchVars >>

\* asyncio.gather returned: all_new is cut to MAX_TOTAL_ITEMS and grouped
Gathered ==
    /\ pc = "gather"
    /\ \A s \in sources : hpc[s] = "done"
    /\ all_new' = Take(all_new, MAX_TOTAL_ITEMS)
    /\ cutoff' = (Len(all_new) > MAX_TOTAL_ITEMS)
    /\ queue' = by_reg(all_new')
    /\ pc' = "notify"
    /\ UNCHANGED << envVars, runsLeft, verdicts, stateFile, run, crashCause, loaded, state, hpc,
                    fetched, errors, marked, saved, tg_log, prev, fetchVars >>

TgCall(kind, reg, items, errs, resp) ==
    [run |-> run, kind |-> kind, regulator |-> reg, items |-> items, errors |-> errs,
     resp |-> resp]

\* the text tg_send posted in call m
TgText(m) ==
    IF m.kind = "items" THEN build_message(m.regulator, m.items) ELSE error_text(m.errors)

\* one iteration of "for regulator, items in by_reg.items()"
NotifyRegulator ==
    /\ pc = "notify"
    /\ queue # << >>
    /\ LET reg   == Head(queue).regulator
           items == Head(queue).items
           asked == {GigaKey(items[k]) : k \in 1..Len(items)}
       IN  \E fresh \in [asked \ DOMAIN verdicts -> GigaAnswers] :
           LET ans      == fresh @@ verdicts
               filtered == gigachat_filter(items, ans)
               final    == final_items(filtered.rel)
           IN  /\ verdicts' = ans
               /\ IF filtered.raised
                  THEN /\ pc' = "crashed"
                       /\ crashCause' = "gigachat_filter"
                       /\ UNCHANGED << state, marked, cutoff, tg_log, queue >>
                  ELSE IF final = << >>
                  THEN /\ queue' = Tail(queue)
                       /\ UNCHANGED << pc, crashCause, state, marked, cutoff, tg_log >>
                  ELSE /\ state' = MarkAll(state, final)
                       /\ marked' = marked \cup SeqToSet(final)
                       /\ cutoff' = (cutoff \/ Len(filtered.rel) > MAX_ITEMS_PER_REGULATOR)
                       /\ \E resp \in TgResponses :
                             /\ tg_log' = Append(tg_log, TgCall("items", reg, final, << >>, resp))
                             /\ IF tg_send(resp).raised
                                THEN /\ pc' = "crashed"
                                     /\ crashCause' = "tg_send"
                                     /\ queue' = queue
                                ELSE /\ queue' = Tail(queue)
                                     /\ UNCHANGED << pc, crashCause >>
    /\ UNCHANGED << envVars, runsLeft, stateFile, run, loaded, hpc, fetched, all_new, errors,
                    saved, prev, fetchVars >>

\* the end of run_once: the errors in one message, then save_json
EndRun ==
    /\ pc = "notify"
    /\ queue = << >>
    /\ IF errors = << >>
       THEN /\ stateFile' = state
            /\ saved' = TRUE
            /\ pc' = "done"
            /\ UNCHANGED << crashCause, tg_log >>
       ELSE \E resp \in TgResponses :
               /\ tg_log' = Append(tg_log, TgCall("errors", "", << >>, Take(errors, 15), resp))
               /\ IF tg_send(resp).raised
                  THEN /\ pc' = "crashed"
                       /\ crashCause' = "tg_send"
                       /\ UNCHANGED << stateFile, saved >>
                  ELSE /\ stateFile' = state
                       /\ saved' = TRUE
                       /\ pc' = "done"
                       /\ UNCHANGED crashCause
    /\ UNCHANGED << envVars, runsLeft, verdicts, run, loaded, state, hpc, fetched, all_new,
                    errors, queue, marked, cutoff, prev, fetchVars >>

Next ==
    \/ StartRun
    \/ \E s \in sources : Acquire(s)
    \/ \E s \in sources : Collected(s)
    \/ Gathered
    \/ NotifyRegulator
    \/ EndRun

Spec == Init /\ [][Next]_vars

SpecRepeat == InitRepeat /\ [][Next]_vars

\* robust_fetch_text alone, one attempt at a time
FetchAttempt ==
    /\ f_result = "running"
    /\ \E resp \in HttpResponses :
          LET st == FetchIter([i |-> f_i, last_err |-> f_last_err,
                               slept |-> f_slept, result |-> f_result], resp)
          IN  /\ f_i' = st.i
              /\ f_last_err' = st.last_err
              /\ f_slept' = st.slept
              /\ f_result' = st.result
              /\ f_tried' = Append(f_tried, resp)
    /\ UNCHANGED << envVars, runsLeft, verdicts, stateFile, run, pc, crashCause, loaded, state,
                    hpc, fetched, all_new, errors, queue, marked, cutoff, saved, tg_log, prev >>

SpecFetch == InitRepeat /\ [][FetchAttempt]_vars

----------------------------------------------------------------------------
(* What the claims speak of *)

\* the character budget of one message (spec.md 4.5: about 3500 to 3900), scaled
\* to the short titles and links of the model: the header and one item line fit
MsgBudget == 130

Calls == 1..Len(tg_log)

ItemCall(k) == tg_log[k].kind = "items"

Delivered(k) == ~tg_send(tg_log[k].resp).raised

ThisRun(k) == tg_log[k].run = run

\* the items of the messages handed to tg_send in this run
BuiltItems == UNION {SeqToSet(tg_log[k].items) : k \in {j \in Calls : ThisRun(j) /\ ItemCall(j)}}

\* the items of the messages delivered in this run
DeliveredItems ==
    UNION {SeqToSet(tg_log[k].items) : k \in {j \in Calls : ThisRun(j) /\ ItemCall(j) /\ Delivered(j)}}

Asked(it) == GigaKey(it) \in DOMAIN verdicts

\* the classifier was asked about it and answered an object with "relevant": true
Relevant(it) ==
    /\ Asked(it)
    /\ verdicts[GigaKey(it)].kind = "object"
    /\ verdicts[GigaKey(it)].relevant

\* the classifier was asked about it and the call failed or returned no object
ClassifyFailed(it) == Asked(it) /\ verdicts[GigaKey(it)].kind # "object"

SourceOf(it) == CHOOSE s \in Sources : SourceList[s].url = it.source_url

\* what one_source(s) adds to all_new in this run when its fetch succeeds
NewOf(s) == SeqToSet(new_items(loaded, collect_items(SourceList[s], feed[s])))

\* the regulators whose iteration of the notify loop has ended in this run
ProcessedRegs ==
    IF pc \in {"notify", "done"} \/ (pc = "crashed" /\ crashCause \in {"tg_send", "gigachat_filter"})
    THEN {it.regulator : it \in SeqToSet(all_new)} \ {queue[k].regulator : k \in 1..Len(queue)}
    ELSE {}

BatchOf(reg) == {it \in SeqToSet(all_new) : it.regulator = reg}

\* every source ended its fetch in this run as it did in the previous run
SameContent == \A s \in sources : fetched[s] # "none" /\ fetched[s] = prev.fetched[s]

\* this run sent no item notification and left the seen state as it was loaded
SilentRun ==
    /\ \A k \in Calls : ThisRun(k) => ~ItemCall(k)
    /\ state = loaded
    /\ stateFile = loaded

----------------------------------------------------------------------------
(* C1 *)

----------------------------------------------------------------------------
(* C2 *)

\* C2: a URL never appears twice across all messages delivered: of the
\* candidate items that share a URL, one only is ever reported.
C2_UrlReportedOnce ==
    \A k, j \in {c \in Calls : ItemCall(c) /\ Delivered(c)} :
        \A a \in 1..Len(tg_log[k].items), b \in 1..Len(tg_log[j].items) :
            tg_log[k].items[a].url = tg_log[j].items[b].url => (k = j /\ a = b)

----------------------------------------------------------------------------
(* C3 *)

\* C3: when the fetch of source x failed and that of source y succeeded in
\* the same run, the failure did not raise out of run_once, x is one entry of
\* errors and gave no item, every new item of y was merged into all_new, and a
\* run that ends within the limits has delivered every relevant new item of y
\* and, last, the error message naming x.
C3_PartialFailureIsolation ==
    \A x, y \in sources :
        (fetched[x] = "fail" /\ fetched[y] = "ok") =>
            /\ crashCause # "one_source"
            /\ Cardinality({k \in 1..Len(errors) : errors[k] = x}) = 1
            /\ \A it \in SeqToSet(all_new) : SourceOf(it) # x
            /\ pc = "gather" => NewOf(y) \subseteq SeqToSet(all_new)
            /\ (pc = "done" /\ ~cutoff) =>
                   \A it \in NewOf(y) : Relevant(it) => it \in DeliveredItems
            /\ pc = "done" =>
                   /\ tg_log # << >>
                   /\ ThisRun(Len(tg_log)) /\ Delivered(Len(tg_log))
                   /\ tg_log[Len(tg_log)].kind = "errors"
                   /\ x \in SeqToSet(tg_log[Len(tg_log)].errors)

\* a run ended in which one source failed and an item of another was delivered
C3_Witness ==
    /\ pc = "done"
    /\ \E x, y \in sources :
          /\ fetched[x] = "fail"
          /\ fetched[y] = "ok"
          /\ \E it \in NewOf(y) : it \in DeliveredItems

----------------------------------------------------------------------------
(* C4 *)

\* C4: an item whose classification call failed (it raised, or returned no
\* JSON object) is in no message and is not marked seen; a regulator whose
\* whole batch failed so gets no message and no mark.
C4_FailClosed ==
    /\ \A it \in BuiltItems \cup marked : Relevant(it) /\ ~ClassifyFailed(it)
    /\ \A reg \in ProcessedRegs :
          (\A it \in BatchOf(reg) : ClassifyFailed(it)) =>
              /\ \A k \in Calls : (ThisRun(k) /\ ItemCall(k)) => tg_log[k].regulator # reg
              /\ \A it \in marked : it.regulator # reg
              /\ \A it \in BatchOf(reg) : << reg, it.url >> \in state => << reg, it.url >> \in loaded

\* the loop went past a regulator for all of whose items the call raised
C4_Witness ==
    \E reg \in ProcessedRegs :
        /\ BatchOf(reg) # {}
        /\ \A it \in BatchOf(reg) : Asked(it) /\ verdicts[GigaKey(it)].kind = "exception"

----------------------------------------------------------------------------
(* C5 *)

\* C5: when tg_send fails for a regulator's message, the seen marks of the
\* messages delivered before it in that run, for other regulators, are in the
\* persisted state.
C5_MarksSurviveNotifyFailure ==
    (pc = "crashed" /\ crashCause = "tg_send" /\ ItemCall(Len(tg_log))) =>
        \A it \in DeliveredItems : << it.regulator, item_key(it) >> \in stateFile

----------------------------------------------------------------------------
(* C6 *)

\* C6: every text handed to tg_send is within the character budget (a batch
\* whose message is longer goes out in two or more parts).
C6_PartsWithinBudget ==
    \A k \in Calls : ItemCall(k) => Len(TgText(tg_log[k])) <= MsgBudget

----------------------------------------------------------------------------
(* C7 *)

NonRetryable(resp) == resp >= 400 /\ resp < 500 /\ resp # 429

\* C7: after a 4xx answer other than 429, robust_fetch_text makes no further
\* attempt.
C7_NoRetryAfterClientError ==
    \A k \in 1..Len(f_tried) : NonRetryable(f_tried[k]) => k = Len(f_tried)

----------------------------------------------------------------------------
(* C8 *)

\* C8: tg_send does not give up on a message at its first 429: a run that a
\* 429 aborted had posted that message more than once.
C8_RateLimitRetried ==
    (pc = "crashed" /\ crashCause = "tg_send" /\ tg_log[Len(tg_log)].resp = 429) =>
        Cardinality({k \in Calls :
            /\ ThisRun(k)
            /\ tg_log[k].kind = tg_log[Len(tg_log)].kind
            /\ tg_log[k].regulator = tg_log[Len(tg_log)].regulator}) > 1

----------------------------------------------------------------------------
(* C9 *)

Inside == {s \in sources : hpc[s] = "inside"}

\* C9: at most CONCURRENCY handlers are inside collect_items; while handlers
\* run, all_new holds items of finished handlers only, the items of one source
\* in one block, and nothing is marked seen.
C9_BoundedFanOut ==
    /\ Cardinality(Inside) <= CONCURRENCY
    /\ pc = "gather" =>
          /\ \A k \in 1..Len(all_new) : hpc[SourceOf(all_new[k])] = "done"
          /\ \A i, j, k \in 1..Len(all_new) :
                (i < j /\ j < k /\ SourceOf(all_new[i]) = SourceOf(all_new[k]))
                    => SourceOf(all_new[j]) = SourceOf(all_new[i])
          /\ state = loaded
          /\ marked = {}

\* the semaphore is exhausted and a handler waits for it
C9_Witness ==
    /\ pc = "gather"
    /\ Cardinality(Inside) = CONCURRENCY
    /\ \E s \in sources : hpc[s] = "pending"

----------------------------------------------------------------------------
(* C10 *)

Score(it) == verdicts[GigaKey(it)].score

\* C10: a seen entry is added only for an item of a message built for that
\* regulator in this run, which is new, relevant, among all_new (cut to
\* MAX_TOTAL_ITEMS) and among the MAX_ITEMS_PER_REGULATOR best by score; no
\* entry is removed; the state file is written only by a run all of whose
\* messages went out.
C10_SeenFollowsNotification ==
    /\ loaded \subseteq state
    /\ loaded \subseteq stateFile
    /\ \A p \in state \ loaded :
          \E k \in Calls : /\ ThisRun(k) /\ ItemCall(k) /\ tg_log[k].regulator = p[1]
                           /\ \E it \in SeqToSet(tg_log[k].items) : item_key(it) = p[2]
    /\ marked = BuiltItems
    /\ \A it \in marked :
          /\ Relevant(it)
          /\ ~is_seen(loaded, it)
          /\ it \in SeqToSet(all_new)
          /\ Cardinality({o \in BatchOf(it.regulator) : Relevant(o) /\ Score(o) > Score(it)})
                 < MAX_ITEMS_PER_REGULATOR
    /\ Len(all_new) > MAX_TOTAL_ITEMS => pc = "gather"
    /\ \A k \in Calls : (ThisRun(k) /\ ItemCall(k)) =>
                            Len(tg_log[k].items) \in 1..MAX_ITEMS_PER_REGULATOR
    /\ stateFile # loaded => saved
    /\ saved => /\ pc = "done"
                /\ stateFile = state
                /\ \A k \in Calls : ThisRun(k) => Delivered(k)

\* a run whose limits dropped an item ended and saved its marks, an item the
\* classifier rejected staying unseen
C10_Witness ==
    /\ pc = "done" /\ saved /\ cutoff
    /\ state # loaded
    /\ \E it \in SeqToSet(all_new) : Asked(it) /\ ~Relevant(it) /\ ~is_seen(state, it)

====
